---- MODULE Spec2Model ----
(***************************************************************************)
(* A model of exploration_david/Exploration.ipynb: the label-map helpers,  *)
(* the SketchesDataset class, the three statistics functions and the       *)
(* sequence of notebook cells that computes and persists dataset_stats.    *)
(*                                                                         *)
(* Numbers: pixel values and statistics are exact rationals <<n, d>> in    *)
(* lowest terms (d > 0); float32 rounding is not modelled.  A square root  *)
(* is kept symbolically as <<"sqrt", q>>.                                  *)
(***************************************************************************)
EXTENDS Integers, Sequences, FiniteSets, TLC

VARIABLES
    \* ---- label maps (cells at lines 64-74 and 83-91) ----
    photos_listing,        \* os.listdir(PHOTOS_DIR): the class folders, in listing order
    folder_files,          \* folder -> os.listdir(folder): file names, in listing order
    pcMap,                 \* "imagenet" | "labels" | "done" | "raised"
    mi,                    \* number of loop iterations done in the running helper
    imagenet_id_class_map, \* the dict d of generate_imagenet_id_class_map
    labels_id_map,         \* the dict d of generate_labels_id_map
    \* ---- SketchesDataset (lines 107-149) ----
    csv,                   \* the rows of stats.csv, in file order
    flags,                 \* the four remove_* arguments
    stats,                 \* self.stats: a DataFrame, a sequence of <<row label, row>>
    pcSk,                  \* position in __init__, then "ready"
    fetched,               \* idx -> what __getitem__(idx) selected, for the calls made
    \* ---- statistics functions (lines 206-243) ----
    dataset,               \* the dataset handed to the function: a sequence of tensors
    batch_size,
    pcSt,                  \* "mean" | "std" | "scaling" | "done"
    bi,                    \* number of batches consumed by the running loop
    acc,                   \* the accumulator of the running loop (mean, var, <<min, max>>)
    contrib,               \* item index -> how many times the running loop consumed it
    result,                \* the values returned so far: mean, std, scaling
    accAtEnd,              \* the accumulators as they were when each loop ended
    \* ---- the notebook run (cells at lines 282-494) ----
    raw_photos,            \* the photo files under PHOTOS_DIR, decoded: raw images
    info_csv,              \* stats.csv as the notebook run finds it
    cell,                  \* the next cell to execute, or "end" / "raised"
    ns,                    \* the kernel namespace: name -> value
    npz,                   \* the .npz files in the working directory: file name -> (key -> array)
    calls,                 \* the calls made so far to the three statistics functions
    savez_count            \* how many times np.savez has run

varsMap == <<photos_listing, folder_files, pcMap, mi, imagenet_id_class_map, labels_id_map>>
varsSk == <<csv, flags, stats, pcSk, fetched>>
varsSt == <<dataset, batch_size, pcSt, bi, acc, contrib, result, accAtEnd>>
varsNb == <<raw_photos, info_csv, cell, ns, npz, calls, savez_count>>
vars == <<varsMap, varsSk, varsSt, varsNb>>

(***************************************************************************)
(* Bounds of the model.                                                    *)
(***************************************************************************)
MaxFolders == 2     \* class folders under photos_dir
MaxFiles == 2       \* files listed in one class folder
MaxRows == 3        \* rows of stats.csv
MaxN == 3           \* items of a dataset handed to a statistics function
MaxBatch == 4       \* batch_size ranges over 1..MaxBatch
MaxPhotos == 2      \* photos in the notebook run
MaxSketches == 2    \* rows of stats.csv in the notebook run

(***************************************************************************)
(* Python values.  A dict may hold int and str keys side by side, and      *)
(* 0 and "0" are different keys: values are tagged with their type.        *)
(***************************************************************************)
PyInt(i) == <<"int", i>>
PyStr(s) == <<"str", s>>
EmptyDict == [k \in {} |-> k]
DictSet(d, k, v) == [x \in (DOMAIN d) \cup {k} |-> IF x = k THEN v ELSE d[x]]

Range(s) == {s[i] : i \in DOMAIN s}
InjSeqs(S, n) == {s \in UNION {[1..k -> S] : k \in 0..n} :
                    \A i, j \in DOMAIN s : i # j => s[i] # s[j]}

(***************************************************************************)
(* Names on disk.  Alphabet lists them in Python's string order, which is  *)
(* what sorted() uses.  A file name is kept as its '_'-separated parts.    *)
(***************************************************************************)
Alphabet == <<"airplane", "bear", "n01", "n02">>
Rank(s) == CHOOSE i \in DOMAIN Alphabet : Alphabet[i] = s
ClassNames == {"airplane", "bear", "n02"}
FileNames == {<<"n01", "1.jpg">>, <<"n01", "2.jpg">>, <<"n02", "7.jpg">>}

\* file.split('_')[0]
SplitFirst(file) == Head(file)

\* sorted(listing): insertion sort on string order
RECURSIVE InsertSorted(_, _)
InsertSorted(s, x) ==
    IF s = <<>> THEN <<x>>
    ELSE IF Rank(x) <= Rank(Head(s)) THEN <<x>> \o s
    ELSE <<Head(s)>> \o InsertSorted(Tail(s), x)
RECURSIVE SortedNames(_)
SortedNames(s) == IF s = <<>> THEN <<>> ELSE InsertSorted(SortedNames(Tail(s)), Head(s))

\* the sequence generate_labels_id_map enumerates
UnsortedLabels(listing) == listing
LabelOrder(listing) == SortedNames(listing)

\* one iteration of the loop of generate_imagenet_id_class_map
ImagenetLoopBodyLastFile(d, folder, files) ==
    LET file == files[Len(files)]
        imagenet_id == SplitFirst(file)
    IN  DictSet(DictSet(d, PyStr(imagenet_id), PyStr(folder)), PyStr(folder), PyStr(imagenet_id))
ImagenetLoopBody(d, folder, files) ==
    LET file == files[1]
        imagenet_id == SplitFirst(file)
    IN  DictSet(DictSet(d, PyStr(imagenet_id), PyStr(folder)), PyStr(folder), PyStr(imagenet_id))

\* one iteration of the loop of generate_labels_id_map
LabelsLoopBody(d, i, label) == DictSet(DictSet(d, PyInt(i), PyStr(label)), PyStr(label), PyInt(i))

(***************************************************************************)
(* Idle values: each specification below runs one part of the notebook     *)
(* and leaves the variables of the other parts at these values.            *)
(***************************************************************************)
IdleMap ==
    /\ photos_listing = <<>>
    /\ folder_files = EmptyDict
    /\ pcMap = "idle"
    /\ mi = 0
    /\ imagenet_id_class_map = EmptyDict
    /\ labels_id_map = EmptyDict

IdleSk ==
    /\ csv = <<>>
    /\ flags = EmptyDict
    /\ stats = <<>>
    /\ pcSk = "idle"
    /\ fetched = EmptyDict

IdleSt ==
    /\ dataset = <<>>
    /\ batch_size = 1
    /\ pcSt = "idle"
    /\ bi = 0
    /\ acc = <<>>
    /\ contrib = EmptyDict
    /\ result = EmptyDict
    /\ accAtEnd = EmptyDict

IdleNb ==
    /\ raw_photos = <<>>
    /\ info_csv = <<>>
    /\ cell = "idle"
    /\ ns = EmptyDict
    /\ npz = EmptyDict
    /\ calls = <<>>
    /\ savez_count = 0

(***************************************************************************)
(* The label maps: imagenet_id_class_map = generate_imagenet_id_class_map  *)
(* (PHOTOS_DIR), then labels_id_map = generate_labels_id_map(PHOTOS_DIR).  *)
(* The directory tree is the input: any class folders in any listing       *)
(* order, each with any files in any listing order.                        *)
(***************************************************************************)
InitMap ==
    /\ photos_listing \in InjSeqs(ClassNames, MaxFolders)
    /\ folder_files \in [Range(photos_listing) -> InjSeqs(FileNames, MaxFiles)]
    /\ pcMap = "imagenet"
    /\ mi = 0
    /\ imagenet_id_class_map = EmptyDict
    /\ labels_id_map = EmptyDict
    /\ IdleSk /\ IdleSt /\ IdleNb

\* for folder in os.listdir(photos_dir): ... (one iteration)
ImagenetIter ==
    /\ pcMap = "imagenet"
    /\ mi < Len(photos_listing)
    /\ folder_files[photos_listing[mi + 1]] # <<>>
    /\ imagenet_id_class_map' =
         ImagenetLoopBody(imagenet_id_class_map, photos_listing[mi + 1],
                          folder_files[photos_listing[mi + 1]])
    /\ mi' = mi + 1
    /\ UNCHANGED <<photos_listing, folder_files, pcMap, labels_id_map>>
    /\ UNCHANGED <<varsSk, varsSt, varsNb>>

\* os.listdir(folder)[0] on an empty folder: IndexError, nothing is returned
ImagenetRaise ==
    /\ pcMap = "imagenet"
    /\ mi < Len(photos_listing)
    /\ folder_files[photos_listing[mi + 1]] = <<>>
    /\ pcMap' = "raised"
    /\ UNCHANGED <<photos_listing, folder_files, mi, imagenet_id_class_map, labels_id_map>>
    /\ UNCHANGED <<varsSk, varsSt, varsNb>>

\* return d; the next cell starts generate_labels_id_map
ImagenetReturn ==
    /\ pcMap = "imagenet"
    /\ mi = Len(photos_listing)
    /\ pcMap' = "labels"
    /\ mi' = 0
    /\ UNCHANGED <<photos_listing, folder_files, imagenet_id_class_map, labels_id_map>>
    /\ UNCHANGED <<varsSk, varsSt, varsNb>>

\* for i, label in enumerate(sorted(os.listdir(photos_dir))): ... (one iteration)
LabelsIter ==
    /\ pcMap = "labels"
    /\ mi < Len(LabelOrder(photos_listing))
    /\ labels_id_map' = LabelsLoopBody(labels_id_map, mi, LabelOrder(photos_listing)[mi + 1])
    /\ mi' = mi + 1
    /\ UNCHANGED <<photos_listing, folder_files, pcMap, imagenet_id_class_map>>
    /\ UNCHANGED <<varsSk, varsSt, varsNb>>

LabelsReturn ==
    /\ pcMap = "labels"
    /\ mi = Len(LabelOrder(photos_listing))
    /\ pcMap' = "done"
    /\ UNCHANGED <<photos_listing, folder_files, mi, imagenet_id_class_map, labels_id_map>>
    /\ UNCHANGED <<varsSk, varsSt, varsNb>>

NextMap == ImagenetIter \/ ImagenetRaise \/ ImagenetReturn \/ LabelsIter \/ LabelsReturn
SpecMap == InitMap /\ [][NextMap]_vars

\* ---------------------------------------------------------------- C6
Folders == Range(photos_listing)
ImagenetReturned == pcMap \in {"labels", "done"}
FirstId(F) == SplitFirst(folder_files[F][1])
IdsOf(F) == {SplitFirst(folder_files[F][i]) : i \in DOMAIN folder_files[F]}
\* d[d[k]] == k, a missing key counting as a failure
RoundTrip(d, k) == k \in DOMAIN d /\ d[k] \in DOMAIN d /\ d[d[k]] = k

\* C6 as stated: for every class folder F under photos_dir, d[F] is an
\* ImageNet ID and d[d[F]] == F, whatever the listing orders are.
C6_AsStated ==
    ImagenetReturned =>
      \A F \in Folders :
        /\ PyStr(F) \in DOMAIN imagenet_id_class_map
        /\ imagenet_id_class_map[PyStr(F)] \in {PyStr(x) : x \in IdsOf(F)}
        /\ RoundTrip(imagenet_id_class_map, PyStr(F))

\* the first-listed files of different folders carry different IDs, and no
\* such ID is the name of another class folder
DistinctFirstIds ==
    \A F, G \in Folders : F # G => FirstId(F) # FirstId(G) /\ FirstId(G) # F

\* C6 amended: when generate_imagenet_id_class_map returns and the
\* first-listed files of different class folders carry different ImageNet
\* IDs, none of them the name of another class folder, then for every class
\* folder F, d[F] is the ImageNet ID of F's first-listed file and
\* d[d[F]] == F, whatever the listing orders are.
C6_RoundTripWhenIdsDistinct ==
    (ImagenetReturned /\ DistinctFirstIds) =>
      \A F \in Folders :
        /\ PyStr(F) \in DOMAIN imagenet_id_class_map
        /\ imagenet_id_class_map[PyStr(F)] = PyStr(FirstId(F))
        /\ RoundTrip(imagenet_id_class_map, PyStr(F))

\* two folders, one of them listing files of two different IDs, returned
C6_Witness ==
    /\ pcMap = "done"
    /\ Len(photos_listing) = 2
    /\ DistinctFirstIds
    /\ \E F \in Folders : Cardinality(IdsOf(F)) = 2

FlagNames == {"remove_error", "remove_ambiguous", "remove_pose", "remove_context"}
DefaultFlags ==
    [f \in FlagNames |-> f = "remove_error"]
QualityColumns == <<"Error?", "Ambiguous?", "WrongPose?", "Context?">>

\* the quality marks of one row, in the order of QualityColumns
QualityKinds == {<<0, 0, 0, 0>>, <<1, 0, 0, 0>>, <<0, 1, 0, 0>>,
                 <<0, 0, 1, 0>>, <<0, 0, 0, 1>>, <<1, 0, 0, 1>>}

\* row number i of stats.csv with quality marks q; a string is kept as the
\* sequence of its pieces, separators included
CsvRow(i, q) ==
    [col \in {"Category", "ImageNetID", "SketchID"} \cup Range(QualityColumns) |->
       CASE col = "Category" -> <<"alarm", " ", "clock">>
         [] col = "ImageNetID" -> "n01_1"
         [] col = "SketchID" -> i
         [] OTHER -> q[CHOOSE k \in DOMAIN QualityColumns : QualityColumns[k] = col]]
CsvFilesOf(kinds, n) ==
    {[i \in 1..Len(qs) |-> CsvRow(i, qs[i])] :
        qs \in UNION {[1..k -> kinds] : k \in 0..n}}
CsvFiles(n) == CsvFilesOf(QualityKinds, n)

\* pd.read_csv(path)
ReadCsv(file) == [i \in 1..Len(file) |-> <<i - 1, file[i]>>]

\* df.loc[df[col] == 0]
LocNeZero(df, col) == SelectSeq(df, LAMBDA r : r[2][col] # 0)
LocEqZero(df, col) == SelectSeq(df, LAMBDA r : r[2][col] = 0)

\* df.iloc[idx], 0 <= idx < len(df)
LocByLabel(df, idx) ==
    IF \E k \in DOMAIN df : df[k][1] = idx
    THEN df[CHOOSE k \in DOMAIN df : df[k][1] = idx]
    ELSE <<-1, CsvRow(0, <<0, 0, 0, 0>>)>>
Iloc(df, idx) == df[idx + 1]

\* s.replace(old, new)
StrReplace(s, old, new) == [i \in DOMAIN s |-> IF s[i] = old THEN new ELSE s[i]]

\* what __getitem__ opens: sketches_dir/class_folder/sketch_file
SketchPath(row) ==
    LET class_folder == StrReplace(row["Category"], " ", "_")
        sketch_file == <<row["ImageNetID"], "-", row["SketchID"], ".png">>
    IN  <<"SKETCHES_DIR", class_folder, sketch_file>>

InitSk ==
    /\ csv \in CsvFiles(MaxRows)
    /\ flags \in [FlagNames -> BOOLEAN]
    /\ stats = <<>>
    /\ pcSk = "read_csv"
    /\ fetched = EmptyDict
    /\ IdleMap /\ IdleSt /\ IdleNb

\* self.stats = pd.read_csv(os.path.join(info_dir, 'stats.csv'))
SkReadCsv ==
    /\ pcSk = "read_csv"
    /\ stats' = ReadCsv(csv)
    /\ pcSk' = "remove_error"
    /\ UNCHANGED <<csv, flags, fetched>>
    /\ UNCHANGED <<varsMap, varsSt, varsNb>>

\* if remove_<x>: self.stats = self.stats.loc[self.stats[col] == 0]
FilterStep(flag, col, next) ==
    /\ pcSk = flag
    /\ stats' = IF flags[flag] THEN LocEqZero(stats, col) ELSE stats
    /\ pcSk' = next
    /\ UNCHANGED <<csv, flags, fetched>>
    /\ UNCHANGED <<varsMap, varsSt, varsNb>>

SkRemoveError == FilterStep("remove_error", "Error?", "remove_ambiguous")
SkRemoveAmbiguous == FilterStep("remove_ambiguous", "Ambiguous?", "remove_pose")
SkRemovePose == FilterStep("remove_pose", "WrongPose?", "remove_context")
SkRemoveContext == FilterStep("remove_context", "Context?", "ready")

\* __len__
DatasetLen == Len(stats)

\* __getitem__(idx) for an index the DataLoader asks for
SkGetItem ==
    /\ pcSk = "ready"
    /\ \E idx \in 0..(DatasetLen - 1) :
         LET row == Iloc(stats, idx)
         IN  fetched' = DictSet(fetched, idx, [row |-> row, path |-> SketchPath(row[2])])
    /\ UNCHANGED <<csv, flags, stats, pcSk>>
    /\ UNCHANGED <<varsMap, varsSt, varsNb>>

NextSk == SkReadCsv \/ SkRemoveError \/ SkRemoveAmbiguous \/ SkRemovePose
            \/ SkRemoveContext \/ SkGetItem
SpecSk == InitSk /\ [][NextSk]_vars

\* ---------------------------------------------------------------- C5
ColumnOfFlag ==
    [f \in FlagNames |->
       CASE f = "remove_error" -> "Error?"
         [] f = "remove_ambiguous" -> "Ambiguous?"
         [] f = "remove_pose" -> "WrongPose?"
         [] OTHER -> "Context?"]
\* the row passes every enabled condition
Passes(row, fl) == \A f \in FlagNames : fl[f] => row[ColumnOfFlag[f]] = 0
\* the rows of stats.csv that pass, in file order, under their labels
ExpectedRows(file, fl) ==
    LET all == [i \in 1..Len(file) |-> <<i - 1, file[i]>>]
    IN  SelectSeq(all, LAMBDA r : Passes(r[2], fl))

\* C5: after construction, no retained row has a non-zero value in the
\* column of a flag that is True, a flag that is False removes no row, the
\* retained rows are exactly the rows of stats.csv satisfying the enabled
\* conditions, in their original order, and with the default arguments
\* exactly the rows with Error? != 0 are removed.
C5_FilterExact ==
    pcSk = "ready" =>
      /\ \A f \in FlagNames : flags[f] =>
           \A k \in DOMAIN stats : stats[k][2][ColumnOfFlag[f]] = 0
      /\ stats = ExpectedRows(csv, flags)
      /\ (\A f \in FlagNames : ~flags[f]) => Len(stats) = Len(csv)
      /\ flags = DefaultFlags =>
           \A i \in 1..Len(csv) :
             (csv[i]["Error?"] = 0) <=> (\E k \in DOMAIN stats : stats[k][1] = i - 1)

\* a construction that removed a row for one flag and kept a row that a
\* disabled flag would have removed
C5_Witness ==
    /\ pcSk = "ready"
    /\ 0 < Len(stats) /\ Len(stats) < Len(csv)
    /\ \E k \in DOMAIN stats : \E f \in FlagNames :
         ~flags[f] /\ stats[k][2][ColumnOfFlag[f]] # 0

\* ---------------------------------------------------------------- C9
\* C9: for every combination of the flags and every idx with
\* 0 <= idx < len(dataset), __getitem__(idx) selects the idx-th retained
\* row by position, never a row the filters removed, and distinct idx
\* select distinct rows; len(dataset) is the number of retained rows.
C9_IndexByPosition ==
    pcSk = "ready" =>
      /\ DatasetLen = Len(ExpectedRows(csv, flags))
      /\ \A idx \in DOMAIN fetched :
           /\ idx \in 0..(DatasetLen - 1)
           /\ fetched[idx].row = ExpectedRows(csv, flags)[idx + 1]
           /\ Passes(fetched[idx].row[2], flags)
      /\ \A i, j \in DOMAIN fetched :
           i # j => fetched[i].row[1] # fetched[j].row[1]

\* two items fetched from a dataset whose retained rows have labels that
\* are no longer their positions
C9_Witness ==
    /\ pcSk = "ready"
    /\ Cardinality(DOMAIN fetched) >= 2
    /\ \E idx \in DOMAIN fetched : fetched[idx].row[1] # idx

(***************************************************************************)
(* Exact rational arithmetic: <<n, d>> with d > 0, in lowest terms.        *)
(***************************************************************************)
Abs(x) == IF x < 0 THEN -x ELSE x
RECURSIVE GCD(_, _)
GCD(a, b) == IF b = 0 THEN a ELSE GCD(b, a % b)
LCM(a, b) == (a \div GCD(a, b)) * b
Rat(n, d) ==
    LET g == GCD(Abs(n), d)
    IN  <<n \div g, d \div g>>
Zero == Rat(0, 1)
One == Rat(1, 1)
RNeg(p) == <<-p[1], p[2]>>
RAdd(p, q) ==
    LET m == LCM(p[2], q[2])
    IN  Rat(p[1] * (m \div p[2]) + q[1] * (m \div q[2]), m)
RSub(p, q) == RAdd(p, RNeg(q))
RMul(p, q) ==
    LET a == Rat(p[1], q[2])
        b == Rat(q[1], p[2])
    IN  <<a[1] * b[1], a[2] * b[2]>>
\* p / q, q # 0
RDiv(p, q) == RMul(p, IF q[1] < 0 THEN <<-q[2], -q[1]>> ELSE <<q[2], q[1]>>)
RLe(p, q) ==
    LET m == LCM(p[2], q[2])
    IN  p[1] * (m \div p[2]) <= q[1] * (m \div q[2])
RAbs(p) == <<Abs(p[1]), p[2]>>
RMax(p, q) == IF RLe(p, q) THEN q ELSE p
RMin(p, q) == IF RLe(p, q) THEN p ELSE q
RECURSIVE RSum(_)
RSum(s) == IF s = <<>> THEN Zero ELSE RAdd(Head(s), RSum(Tail(s)))
RECURSIVE RMaxOf(_)
RMaxOf(s) == IF Len(s) = 1 THEN s[1] ELSE RMax(Head(s), RMaxOf(Tail(s)))
RECURSIVE RMinOf(_)
RMinOf(s) == IF Len(s) = 1 THEN s[1] ELSE RMin(Head(s), RMinOf(Tail(s)))
\* torch.sqrt, kept symbolic
Sqrt(q) == <<"sqrt", q>>

RECURSIVE Concat(_)
Concat(ss) == IF ss = <<>> THEN <<>> ELSE Head(ss) \o Concat(Tail(ss))

(***************************************************************************)
(* Images.  A decoded RGB image is [channel][row][column] of bytes;        *)
(* ToTensor turns a byte k into k/255.                                     *)
(***************************************************************************)
ByteMax == 255
RawImages == {
    <<  <<<<0, 0>>>>,     <<<<0, 0>>>>,     <<<<0, 0>>>>    >>,
    <<  <<<<255, 255>>>>, <<<<255, 255>>>>, <<<<255, 255>>>> >>,
    <<  <<<<255, 0>>>>,   <<<<51, 51>>>>,   <<<<0, 102>>>>  >>,
    <<  <<<<0, 51>>>>,    <<<<255, 255>>>>, <<<<204, 0>>>>  >> }

\* transforms.ToTensor()
ToTensor(raw) ==
    [ch \in DOMAIN raw |-> [r \in DOMAIN raw[ch] |->
        [col \in DOMAIN raw[ch][r] |-> Rat(raw[ch][r][col], ByteMax)]]]
\* InvertTransform.__call__: 1 - sample
InvertTransform(sample) ==
    [ch \in DOMAIN sample |-> [r \in DOMAIN sample[ch] |->
        [col \in DOMAIN sample[ch][r] |-> RSub(One, sample[ch][r][col])]]]
\* transforms.Normalize(mean, std): (t - mean[ch]) / std[ch]
Normalize(t, mean, std) ==
    [ch \in DOMAIN t |-> [r \in DOMAIN t[ch] |->
        [col \in DOMAIN t[ch][r] |-> RDiv(RSub(t[ch][r][col], mean[ch]), std[ch])]]]
\* np.array([1, 1, 1])
Ones == <<One, One, One>>

\* tensor.size() of an image
Size(t) == <<Len(t), Len(t[1]), Len(t[1][1])>>
\* batch.view(batch_samples, c, -1), for one item of the batch
View(t) == [ch \in DOMAIN t |-> Concat(t[ch])]

(***************************************************************************)
(* DataLoader(dataset, batch_size): consecutive batches of item indexes,   *)
(* in order, the last one smaller when batch_size does not divide N.       *)
(***************************************************************************)
Min2(a, b) == IF a <= b THEN a ELSE b
BatchesDropLast(n, bs) ==
    [b \in 1..(n \div bs) |-> [k \in 1..bs |-> (b - 1) * bs + k]]
Batches(n, bs) ==
    [b \in 1..((n + bs - 1) \div bs) |->
        [k \in 1..(Min2(b * bs, n) - (b - 1) * bs) |-> (b - 1) * bs + k]]
DefaultBatchSize == 100

\* a Python float or a per-channel tensor
PyFloat(q) == <<"float", q>>
Tensor(v) == <<"tensor", v>>
\* a += t with broadcasting of a scalar a
AddTo(a, t) ==
    IF a[1] = "float" THEN Tensor([ch \in DOMAIN t |-> RAdd(a[2], t[ch])])
    ELSE Tensor([ch \in DOMAIN t |-> RAdd(a[2][ch], t[ch])])
\* a / k for an integer k > 0
DivBy(a, k) ==
    IF a[1] = "float" THEN PyFloat(RDiv(a[2], Rat(k, 1)))
    ELSE Tensor([ch \in DOMAIN a[2] |-> RDiv(a[2][ch], Rat(k, 1))])

\* lines 211-213: mean += batch.mean(2).sum(0), batch a sequence of items
MeanLoopBody(mean, batch) ==
    LET batch_samples == Len(batch)
        viewed == [i \in 1..batch_samples |-> View(batch[i])]
        c == Len(viewed[1])
        item_mean(i, ch) == RDiv(RSum(viewed[i][ch]), Rat(Len(viewed[i][ch]), 1))
    IN  AddTo(mean, [ch \in 1..c |-> RSum([i \in 1..batch_samples |-> item_mean(i, ch)])])

\* line 214: mean /= len(dl.dataset)
MeanFinishByBatches(mean, n, bs) == DivBy(mean, Len(Batches(n, bs)) * bs)
MeanFinish(mean, n, bs) == DivBy(mean, n)

\* lines 223-225: var += ((batch - mean.unsqueeze(1))**2).sum([0, 2])
StdLoopBodyNoMean(var, batch, mean, c) ==
    LET viewed == [i \in 1..Len(batch) |-> View(batch[i])]
        sq(i, ch) == [k \in DOMAIN viewed[i][ch] |-> RMul(viewed[i][ch][k], viewed[i][ch][k])]
    IN  AddTo(var, [ch \in 1..c |-> RSum([i \in 1..Len(batch) |-> RSum(sq(i, ch))])])
StdLoopBody(var, batch, mean, c) ==
    LET batch_samples == Len(batch)
        viewed == [i \in 1..batch_samples |-> View(batch[i])]
        sq(i, ch) ==
            [k \in DOMAIN viewed[i][ch] |->
                RMul(RSub(viewed[i][ch][k], mean[2][ch]), RSub(viewed[i][ch][k], mean[2][ch]))]
    IN  AddTo(var, [ch \in 1..c |-> RSum([i \in 1..batch_samples |-> RSum(sq(i, ch))])])

\* line 226: std = torch.sqrt(var / (len(dl.dataset) * h * w))
StdFinish(var, n, h, w) ==
    Tensor([ch \in DOMAIN var[2] |-> Sqrt(RDiv(var[2][ch], Rat(n * h * w, 1)))])

\* lines 238-241: acc is <<min_value, max_value>>
ScalingLoopBody(mm, batch) ==
    LET batch_samples == Len(batch)
        viewed == [i \in 1..batch_samples |-> View(batch[i])]
        all == Concat([i \in 1..batch_samples |-> Concat(viewed[i])])
    IN  <<RMin(mm[1], RMinOf(all)), RMax(mm[2], RMaxOf(all))>>

\* line 242: scaling = max(abs(min_value), abs(max_value))
ScalingFinishNoAbs(mm) == RMax(mm[1], mm[2])
ScalingFinish(mm) == RMax(RAbs(mm[1]), RAbs(mm[2]))

(***************************************************************************)
(* The statistics functions on one dataset, as the notebook applies them:  *)
(* dataset_mean(ds), dataset_std(ds, mean), then dataset_scaling on ds     *)
(* with Normalize(mean, [1, 1, 1]) added to its transform.  Each loop      *)
(* iteration is one step.                                                  *)
(***************************************************************************)
TensorDatasets(n) == UNION {[1..k -> {ToTensor(raw) : raw \in RawImages}] : k \in 1..n}

\* dataset[i], 1-based, as the running function sees it
ItemAt(ds, phase, res, i) ==
    IF phase = "scaling" THEN Normalize(ds[i], res["mean"][2], Ones) ELSE ds[i]
\* the batches the DataLoader yields, as sequences of item indexes
Loader == Batches(Len(dataset), batch_size)
BatchItems(idxs) == [k \in DOMAIN idxs |-> ItemAt(dataset, pcSt, result, idxs[k])]
Consume(cnt, idxs) == [i \in DOMAIN cnt |-> IF i \in Range(idxs) THEN cnt[i] + 1 ELSE cnt[i]]
NoneConsumed == [i \in 1..Len(dataset) |-> 0]
Finished(name, value) ==
    /\ result' = DictSet(result, name, value)
    /\ accAtEnd' = DictSet(accAtEnd, name, [acc |-> acc, contrib |-> contrib, batches |-> bi])

InitSt ==
    /\ dataset \in TensorDatasets(MaxN)
    /\ batch_size \in 1..MaxBatch
    /\ pcSt = "mean"
    /\ bi = 0
    /\ acc = PyFloat(Zero)
    /\ contrib = NoneConsumed
    /\ result = EmptyDict
    /\ accAtEnd = EmptyDict
    /\ IdleMap /\ IdleSk /\ IdleNb

\* dataset_mean: one iteration of "for batch, _ in dl"
MeanBatch ==
    /\ pcSt = "mean"
    /\ bi < Len(Loader)
    /\ acc' = MeanLoopBody(acc, BatchItems(Loader[bi + 1]))
    /\ contrib' = Consume(contrib, Loader[bi + 1])
    /\ bi' = bi + 1
    /\ UNCHANGED <<dataset, batch_size, pcSt, result, accAtEnd>>
    /\ UNCHANGED <<varsMap, varsSk, varsNb>>

\* dataset_mean returns; dataset_std starts with var = 0.
MeanReturn ==
    /\ pcSt = "mean"
    /\ bi = Len(Loader)
    /\ Finished("mean", MeanFinish(acc, Len(dataset), batch_size))
    /\ pcSt' = "std"
    /\ bi' = 0
    /\ acc' = PyFloat(Zero)
    /\ contrib' = NoneConsumed
    /\ UNCHANGED <<dataset, batch_size>>
    /\ UNCHANGED <<varsMap, varsSk, varsNb>>

\* dataset_std: one iteration of "for batch, _ in dl"
StdBatch ==
    /\ pcSt = "std"
    /\ bi < Len(Loader)
    /\ acc' = StdLoopBody(acc, BatchItems(Loader[bi + 1]), result["mean"], Size(dataset[1])[1])
    /\ contrib' = Consume(contrib, Loader[bi + 1])
    /\ bi' = bi + 1
    /\ UNCHANGED <<dataset, batch_size, pcSt, result, accAtEnd>>
    /\ UNCHANGED <<varsMap, varsSk, varsNb>>

\* dataset_std returns; dataset_scaling starts with min_value = 1, max_value = -1
StdReturn ==
    /\ pcSt = "std"
    /\ bi = Len(Loader)
    /\ Finished("std", StdFinish(acc, Len(dataset), Size(dataset[1])[2], Size(dataset[1])[3]))
    /\ pcSt' = "scaling"
    /\ bi' = 0
    /\ acc' = <<One, RNeg(One)>>
    /\ contrib' = NoneConsumed
    /\ UNCHANGED <<dataset, batch_size>>
    /\ UNCHANGED <<varsMap, varsSk, varsNb>>

\* dataset_scaling: one iteration of "for batch, _ in dl"
ScalingBatch ==
    /\ pcSt = "scaling"
    /\ bi < Len(Loader)
    /\ acc' = ScalingLoopBody(acc, BatchItems(Loader[bi + 1]))
    /\ contrib' = Consume(contrib, Loader[bi + 1])
    /\ bi' = bi + 1
    /\ UNCHANGED <<dataset, batch_size, pcSt, result, accAtEnd>>
    /\ UNCHANGED <<varsMap, varsSk, varsNb>>

ScalingReturn ==
    /\ pcSt = "scaling"
    /\ bi = Len(Loader)
    /\ Finished("scaling", ScalingFinish(acc))
    /\ pcSt' = "done"
    /\ UNCHANGED <<dataset, batch_size, bi, acc, contrib>>
    /\ UNCHANGED <<varsMap, varsSk, varsNb>>

NextSt == MeanBatch \/ MeanReturn \/ StdBatch \/ StdReturn \/ ScalingBatch \/ ScalingReturn
SpecSt == InitSt /\ [][NextSt]_vars

\* ------------------------------------------------- reference values
\* written without batches: sums over all items and all pixels
NItems == Len(dataset)
ChannelsOf == 1..Len(dataset[1])
PixelsPerChannel == Size(dataset[1])[2] * Size(dataset[1])[3]
ItemPixels(t, ch) == Concat(t[ch])
ItemMean(t, ch) == RDiv(RSum(ItemPixels(t, ch)), Rat(Len(ItemPixels(t, ch)), 1))
\* the pixels of channel ch of the first k items
PixelsUpTo(ds, k, ch) == Concat([i \in 1..k |-> ItemPixels(ds[i], ch)])
SumOfItemMeans(ds, k, ch) == RSum([i \in 1..k |-> ItemMean(ds[i], ch)])
WholeMean(ds, ch) == RDiv(RSum(PixelsUpTo(ds, Len(ds), ch)), Rat(Len(PixelsUpTo(ds, Len(ds), ch)), 1))
SquaredDeviations(ds, k, ch, m) ==
    LET px == PixelsUpTo(ds, k, ch)
    IN  RSum([j \in DOMAIN px |-> RMul(RSub(px[j], m), RSub(px[j], m))])
EachOnce(cnt) == \A i \in DOMAIN cnt : cnt[i] = 1
\* after b batches exactly the first min(b * batch_size, N) items were consumed, once each
ConsumedPrefix(cnt, b) ==
    \A i \in DOMAIN cnt : cnt[i] = IF i <= Min2(b * batch_size, NItems) THEN 1 ELSE 0

\* ---------------------------------------------------------------- C1
\* C1: for every dataset of N >= 1 equally sized images and every
\* batch_size >= 1, dataset_mean consumes each item exactly once, its
\* accumulator before the division is the sum over all N items of the
\* item's per-channel pixel mean, the divisor is N, and the result is the
\* per-channel mean of the whole dataset, the same for every batch_size.
C1_MeanOnePass ==
    /\ (pcSt = "mean" /\ bi > 0) =>
         /\ ConsumedPrefix(contrib, bi)
         /\ \A ch \in ChannelsOf :
              acc[2][ch] = SumOfItemMeans(dataset, Min2(bi * batch_size, NItems), ch)
    /\ "mean" \in DOMAIN result =>
         /\ EachOnce(accAtEnd["mean"].contrib)
         /\ \A ch \in ChannelsOf :
              /\ accAtEnd["mean"].acc[2][ch] = SumOfItemMeans(dataset, NItems, ch)
              /\ result["mean"][2][ch] = RDiv(accAtEnd["mean"].acc[2][ch], Rat(NItems, 1))
              /\ result["mean"][2][ch] = WholeMean(dataset, ch)

\* a mean returned from a pass whose last batch was smaller than batch_size,
\* over items that differ
C1_Witness ==
    /\ "mean" \in DOMAIN result
    /\ NItems = 3 /\ batch_size = 2
    /\ dataset[1] # dataset[2] /\ dataset[2] # dataset[3]
    /\ \E ch \in ChannelsOf : result["mean"][2][ch] \notin {Zero, One}

\* ---------------------------------------------------------------- C2
\* C2: given the mean of the same dataset, dataset_std consumes each item
\* exactly once, var[ch] after the loop is the sum over all N items and all
\* h*w pixels of (pixel - mean[ch])^2, and the result is
\* sqrt(var[ch] / (N*h*w)), independent of batch_size.
C2_StdOnePass ==
    /\ (pcSt = "std" /\ bi > 0) =>
         /\ ConsumedPrefix(contrib, bi)
         /\ \A ch \in ChannelsOf :
              acc[2][ch] = SquaredDeviations(dataset, Min2(bi * batch_size, NItems), ch,
                                             WholeMean(dataset, ch))
    /\ "std" \in DOMAIN result =>
         /\ EachOnce(accAtEnd["std"].contrib)
         /\ \A ch \in ChannelsOf :
              /\ accAtEnd["std"].acc[2][ch] =
                   SquaredDeviations(dataset, NItems, ch, WholeMean(dataset, ch))
              /\ result["std"][2][ch] =
                   Sqrt(RDiv(SquaredDeviations(dataset, NItems, ch, WholeMean(dataset, ch)),
                             Rat(NItems * PixelsPerChannel, 1)))

\* a standard deviation that is not zero, from a pass with a smaller last batch
C2_Witness ==
    /\ "std" \in DOMAIN result
    /\ NItems = 3 /\ batch_size = 2
    /\ \E ch \in ChannelsOf : result["std"][2][ch] # Sqrt(Zero)

\* ---------------------------------------------------------------- C3
\* every pixel value of the mean-subtracted dataset
CenteredPixels ==
    Concat([i \in 1..NItems |->
        Concat(View(Normalize(dataset[i], result["mean"][2], Ones)))])
Within(v, s) == RLe(RNeg(s), v) /\ RLe(v, s)
\* v / s is defined and lies in [-1, 1]
ScaledInUnitRange(v, s) == s # Zero /\ Within(RDiv(v, s), One)

RECURSIVE MeanLoop(_, _, _, _)
MeanLoop(items, loader, b, mean) ==
    IF b > Len(loader) THEN mean
    ELSE MeanLoop(items, loader, b + 1,
                  MeanLoopBody(mean, [k \in DOMAIN loader[b] |-> items[loader[b][k]]]))
RECURSIVE StdLoop(_, _, _, _, _)
StdLoop(items, loader, b, var, mean) ==
    IF b > Len(loader) THEN var
    ELSE StdLoop(items, loader, b + 1,
                 StdLoopBody(var, [k \in DOMAIN loader[b] |-> items[loader[b][k]]],
                             mean, Size(items[1])[1]),
                 mean)
RECURSIVE ScalingLoop(_, _, _, _)
ScalingLoop(items, loader, b, mm) ==
    IF b > Len(loader) THEN mm
    ELSE ScalingLoop(items, loader, b + 1,
                     ScalingLoopBody(mm, [k \in DOMAIN loader[b] |-> items[loader[b][k]]]))

dataset_mean(items, bs) ==
    MeanFinish(MeanLoop(items, Batches(Len(items), bs), 1, PyFloat(Zero)), Len(items), bs)
dataset_std(items, mean, bs) ==
    StdFinish(StdLoop(items, Batches(Len(items), bs), 1, PyFloat(Zero), mean),
              Len(items), Size(items[1])[2], Size(items[1])[3])
dataset_scaling(items, bs) ==
    PyFloat(ScalingFinish(ScalingLoop(items, Batches(Len(items), bs), 1, <<One, RNeg(One)>>)))

\* the sketch files on disk: the file at a path, decoded
SketchPool == <<
    <<  <<<<255, 255>>>>, <<<<255, 255>>>>, <<<<255, 255>>>> >>,
    <<  <<<<255, 0>>>>,   <<<<255, 0>>>>,   <<<<255, 0>>>>  >>,
    <<  <<<<51, 255>>>>,  <<<<51, 255>>>>,  <<<<51, 255>>>>  >> >>
SketchFileAt(path) == SketchPool[((path[3][3] - 1) % Len(SketchPool)) + 1]
NbQualityKinds == {<<0, 0, 0, 0>>, <<1, 0, 0, 0>>, <<0, 1, 0, 0>>}

\* SketchesDataset.__init__ as a whole: self.stats
SketchesStats(file, fl) ==
    LET s0 == ReadCsv(file)
        s1 == IF fl["remove_error"] THEN LocEqZero(s0, "Error?") ELSE s0
        s2 == IF fl["remove_ambiguous"] THEN LocEqZero(s1, "Ambiguous?") ELSE s1
        s3 == IF fl["remove_pose"] THEN LocEqZero(s2, "WrongPose?") ELSE s2
    IN  IF fl["remove_context"] THEN LocEqZero(s3, "Context?") ELSE s3

\* the items of the two datasets before Normalize: ImageFolder with ToTensor,
\* SketchesDataset (default flags) with ToTensor and InvertTransform
PhotoItems == [i \in DOMAIN raw_photos |-> ToTensor(raw_photos[i])]
SketchItems ==
    LET st == SketchesStats(info_csv, DefaultFlags)
    IN  [i \in DOMAIN st |->
           InvertTransform(ToTensor(SketchFileAt(SketchPath(Iloc(st, i - 1)[2]))))]
BaseItems(ds) == IF ds = "photos" THEN PhotoItems ELSE SketchItems
\* a dataset object: its items are transformed when they are read
DatasetItems(d) ==
    IF d.normalize[1] = "none" THEN d.items
    ELSE [i \in DOMAIN d.items |-> Normalize(d.items[i], d.normalize[2], Ones)]

\* the names the cells of one dataset bind and read
VarOf(ds, stat) ==
    CASE ds = "photos" /\ stat = "mean" -> "photos_mean"
      [] ds = "photos" /\ stat = "std" -> "photos_std"
      [] ds = "photos" /\ stat = "scaling" -> "photos_scaling"
      [] ds = "photos" /\ stat = "dataset" -> "photos_dataset"
      [] ds = "sketches" /\ stat = "mean" -> "sketches_mean"
      [] ds = "sketches" /\ stat = "std" -> "sketches_std"
      [] ds = "sketches" /\ stat = "scaling" -> "sketches_scaling"
      [] OTHER -> "sketches_dataset"
\* the mean a std cell passes and a scaling cell normalizes with
MeanNameCopied(ds) == "photos_mean"
MeanName(ds) == VarOf(ds, "mean")

StatNames == {"photos_mean", "photos_std", "photos_scaling",
              "sketches_mean", "sketches_std", "sketches_scaling"}
\* tensor.numpy(), and the array np.savez makes of a Python float
Numpy(v) == <<"ndarray", v[2]>>
\* np.savez("dataset_stats", keyword=value, ...): keyword -> the variable saved
SavezArgsSwapped ==
    [kw \in StatNames |->
       CASE kw = "photos_std" -> "sketches_std"
         [] kw = "sketches_std" -> "photos_std"
         [] OTHER -> kw]
SavezArgs == [kw \in StatNames |-> kw]
\* the load cell: variable -> the key it reads from npzfile
LoadKeys == [v \in StatNames |-> v]
\* np.savez(file, ...) appends ".npz" to a file name that lacks it
SavezFileName(file) == IF file[Len(file)] = ".npz" THEN file ELSE Append(file, ".npz")

CellOrder == <<"photos_mean", "photos_std", "photos_scaling",
               "sketches_mean", "sketches_std", "sketches_scaling",
               "savez", "load", "end">>
NextCell(c) == CellOrder[(CHOOSE k \in DOMAIN CellOrder : CellOrder[k] = c) + 1]

InitNb ==
    /\ raw_photos \in UNION {[1..k -> RawImages] : k \in 0..MaxPhotos}
    /\ info_csv \in CsvFilesOf(NbQualityKinds, MaxSketches)
    /\ cell = "photos_mean"
    /\ ns = EmptyDict
    /\ npz = EmptyDict
    /\ calls = <<>>
    /\ savez_count = 0
    /\ IdleMap /\ IdleSk /\ IdleSt

Logged(fn, ds, d, mean, returned) ==
    calls' = Append(calls, [fn |-> fn, ds |-> ds, mean |-> mean, returned |-> returned,
                            consumed |-> Concat(Batches(Len(d.items), DefaultBatchSize))])

\* <ds>_dataset = ...; <ds>_mean = dataset_mean(<ds>_dataset)
MeanCell(ds) ==
    /\ cell = VarOf(ds, "mean")
    /\ BaseItems(ds) # <<>>
    /\ LET d == [items |-> BaseItems(ds), normalize |-> <<"none">>]
           m == dataset_mean(DatasetItems(d), DefaultBatchSize)
       IN  /\ ns' = DictSet(DictSet(ns, VarOf(ds, "dataset"), d), VarOf(ds, "mean"), m)
           /\ Logged("dataset_mean", ds, d, <<"none">>, m)
    /\ cell' = NextCell(cell)
    /\ UNCHANGED <<raw_photos, info_csv, npz, savez_count>>
    /\ UNCHANGED <<varsMap, varsSk, varsSt>>

\* no photo found (ImageFolder raises) or no sketch retained (mean /= 0 raises):
\* the run stops at this cell
MeanCellRaises(ds) ==
    /\ cell = VarOf(ds, "mean")
    /\ BaseItems(ds) = <<>>
    /\ cell' = "raised"
    /\ UNCHANGED <<raw_photos, info_csv, ns, npz, calls, savez_count>>
    /\ UNCHANGED <<varsMap, varsSk, varsSt>>

\* <ds>_std = dataset_std(<ds>_dataset, <ds>_mean)
StdCell(ds) ==
    /\ cell = VarOf(ds, "std")
    /\ LET d == ns[VarOf(ds, "dataset")]
           mean == ns[MeanName(ds)]
           sd == dataset_std(DatasetItems(d), mean, DefaultBatchSize)
       IN  /\ ns' = DictSet(ns, VarOf(ds, "std"), sd)
           /\ Logged("dataset_std", ds, d, mean, sd)
    /\ cell' = NextCell(cell)
    /\ UNCHANGED <<raw_photos, info_csv, npz, savez_count>>
    /\ UNCHANGED <<varsMap, varsSk, varsSt>>

\* <ds>_dataset = ... Normalize(mean=<ds>_mean, std=[1, 1, 1]);
\* <ds>_scaling = dataset_scaling(<ds>_dataset)
ScalingCell(ds) ==
    /\ cell = VarOf(ds, "scaling")
    /\ LET mean == ns[MeanName(ds)]
           d == [items |-> BaseItems(ds), normalize |-> <<"mean", mean[2]>>]
           sc == dataset_scaling(DatasetItems(d), DefaultBatchSize)
       IN  /\ ns' = DictSet(DictSet(ns, VarOf(ds, "dataset"), d), VarOf(ds, "scaling"), sc)
           /\ Logged("dataset_scaling", ds, d, mean, sc)
    /\ cell' = NextCell(cell)
    /\ UNCHANGED <<raw_photos, info_csv, npz, savez_count>>
    /\ UNCHANGED <<varsMap, varsSk, varsSt>>

PhotosMeanCell == MeanCell("photos")
PhotosMeanCellRaises == MeanCellRaises("photos")
PhotosStdCell == StdCell("photos")
PhotosScalingCell == ScalingCell("photos")
SketchesMeanCell == MeanCell("sketches")
SketchesMeanCellRaises == MeanCellRaises("sketches")
SketchesStdCell == StdCell("sketches")
SketchesScalingCell == ScalingCell("sketches")

\* np.savez("dataset_stats", photos_mean=photos_mean.numpy(), ...)
SavezCell ==
    /\ cell = "savez"
    /\ npz' = DictSet(npz, SavezFileName(<<"dataset_stats">>),
                       [kw \in StatNames |-> Numpy(ns[SavezArgs[kw]])])
    /\ savez_count' = savez_count + 1
    /\ cell' = NextCell(cell)
    /\ UNCHANGED <<raw_photos, info_csv, ns, calls>>
    /\ UNCHANGED <<varsMap, varsSk, varsSt>>

\* npzfile = np.load("dataset_stats.npz"); photos_mean = npzfile['photos_mean']; ...
LoadCell ==
    /\ cell = "load"
    /\ <<"dataset_stats", ".npz">> \in DOMAIN npz
    /\ LET npzfile == npz[<<"dataset_stats", ".npz">>]
       IN  ns' = [x \in (DOMAIN ns) \cup StatNames |->
                    IF x \in StatNames THEN npzfile[LoadKeys[x]] ELSE ns[x]]
    /\ cell' = NextCell(cell)
    /\ UNCHANGED <<raw_photos, info_csv, npz, calls, savez_count>>
    /\ UNCHANGED <<varsMap, varsSk, varsSt>>

NextNb == PhotosMeanCell \/ PhotosMeanCellRaises \/ PhotosStdCell \/ PhotosScalingCell
            \/ SketchesMeanCell \/ SketchesMeanCellRaises \/ SketchesStdCell
            \/ SketchesScalingCell \/ SavezCell \/ LoadCell
SpecNb == InitNb /\ [][NextNb]_vars

\* ---------------------------------------------------------------- C7
ExpectedCalls == <<
    <<"dataset_mean", "photos">>, <<"dataset_std", "photos">>, <<"dataset_scaling", "photos">>,
    <<"dataset_mean", "sketches">>, <<"dataset_std", "sketches">>,
    <<"dataset_scaling", "sketches">> >>
\* the number of items of each dataset, from the files on disk
FullSize(ds) ==
    IF ds = "photos" THEN Len(raw_photos) ELSE Len(ExpectedRows(info_csv, DefaultFlags))
\* the call that computed statistic fn of dataset ds, if it was made
CallsOf(fn, ds) == {k \in DOMAIN calls : calls[k].fn = fn /\ calls[k].ds = ds}
AllSixComputed == Len(calls) = 6 /\ StatNames \subseteq DOMAIN ns

\* C7: in top-to-bottom execution the statistics functions are called
\* in the order mean, std, scaling for photos and then for sketches; the
\* std and scaling passes of a dataset start after its mean pass returned
\* and use the mean returned for that same dataset; every pass consumes
\* every item of its dataset once; np.savez runs at most once, only after
\* all six statistics are computed, and exactly once in a run that reaches
\* the end.
C7_LinearPipeline ==
    /\ Len(calls) <= 6
    /\ \A k \in DOMAIN calls :
         /\ <<calls[k].fn, calls[k].ds>> = ExpectedCalls[k]
         /\ calls[k].consumed = [i \in 1..FullSize(calls[k].ds) |-> i]
         /\ calls[k].fn # "dataset_mean" =>
              \E j \in CallsOf("dataset_mean", calls[k].ds) :
                 j < k /\ calls[k].mean = calls[j].returned
    /\ savez_count <= 1
    /\ savez_count = 1 <=> cell \in {"load", "end"}
    /\ savez_count = 1 => AllSixComputed
    /\ cell = "savez" => AllSixComputed

\* a complete run whose two datasets have different means, the sketches
\* dataset having lost a row to the filter
C7_Witness ==
    /\ cell = "end"
    /\ savez_count = 1
    /\ FullSize("sketches") < Len(info_csv)
    /\ calls[1].returned # calls[4].returned

\* ---------------------------------------------------------------- C4
NpzFile == <<"dataset_stats", ".npz">>
\* the function and dataset behind each name
StatOfName(name) ==
    CASE name = "photos_mean" -> <<"dataset_mean", "photos">>
      [] name = "photos_std" -> <<"dataset_std", "photos">>
      [] name = "photos_scaling" -> <<"dataset_scaling", "photos">>
      [] name = "sketches_mean" -> <<"dataset_mean", "sketches">>
      [] name = "sketches_std" -> <<"dataset_std", "sketches">>
      [] OTHER -> <<"dataset_scaling", "sketches">>
\* the value the run computed for that name
ComputedFor(name) ==
    calls[CHOOSE k \in DOMAIN calls : <<calls[k].fn, calls[k].ds>> = StatOfName(name)].returned

\* C4: the archive written by the single np.savez call holds exactly the
\* six names, each with the value computed for that statistic of that
\* dataset; every name the load cell reads is one of them, and after the
\* load cell each of the six variables holds the value computed for it.
C4_SaveLoadRoundTrip ==
    /\ savez_count = 0 => npz = EmptyDict
    /\ savez_count = 1 =>
         /\ DOMAIN npz = {NpzFile}
         /\ DOMAIN npz[NpzFile] = StatNames
         /\ Cardinality(DOMAIN npz[NpzFile]) = 6
         /\ \A v \in StatNames : LoadKeys[v] \in DOMAIN npz[NpzFile]
         /\ \A name \in StatNames : npz[NpzFile][name][2] = ComputedFor(name)[2]
    /\ cell = "end" =>
         \A name \in StatNames :
            /\ ns[name] = npz[NpzFile][name]
            /\ ns[name][2] = ComputedFor(name)[2]

\* a complete run in which photos and sketches differ in every statistic
C4_Witness ==
    /\ cell = "end"
    /\ ns["photos_mean"] # ns["sketches_mean"]
    /\ ns["photos_std"] # ns["sketches_std"]
    /\ ns["photos_scaling"] # ns["sketches_scaling"]

====
